---- MODULE Spec2Model ----
(***************************************************************************)
(* Model of the crypto signal service: the two variants of the signal      *)
(* script (the v2.0 "Telegram" script and the v1.0 script, both in         *)
(* src/unnamed/part_000) and the dashboard server (src/server.js).         *)
(*                                                                         *)
(* The module holds several specifications over one set of variables; the  *)
(* variable `mode` says which part of the program a behaviour exercises:   *)
(*   SpecRisk   calculatePositionSize (both variants)                      *)
(*   SpecScore  the scoring rules of analyzeAsset (both variants)          *)
(*   SpecInd    the indicator functions                                    *)
(*   SpecRun    generateSignals (both variants)                            *)
(*                                                                         *)
(* Arithmetic.  JavaScript numbers are doubles.  The risk sizer is         *)
(* modelled with exact rationals (records [n, d], normalised), i.e. the    *)
(* real-number meaning of its expressions.  The indicator functions are    *)
(* modelled in fixed point: a number x is the integer x * Scale, and a     *)
(* division or product rounds to the nearest unit.                         *)
(***************************************************************************)
EXTENDS Integers, Sequences, FiniteSets, TLC

VARIABLES
    mode,        \* which part of the program the behaviour exercises
    variant,     \* "telegram" (part_000:1-320) or "v1" (part_000:322-694)
    signal,      \* risk sizer: the signal argument (bias, price, atrPercent)
    accountBalance, \* risk sizer: the accountBalance argument
    riskProfile, \* risk sizer: the name of the risk profile argument (v1)
    plan,        \* risk sizer: the returned plan (NoPlan before the call)
    hyperData,   \* analyzeAsset: the hyperData argument
    luziaData,   \* analyzeAsset: the luziaData argument (NoLuzia for null)
    indicators,  \* analyzeAsset: the indicator values computed from the history
    analysis,    \* analyzeAsset: the returned signal (NoAnalysis before the call)
    prices,      \* indicators: the price series argument
    call,        \* indicators: the function called and its period argument
    ret,         \* indicators: the value the call returned
    env,         \* run: LUZIA_API_KEY, CRON_MODE, TELEGRAM_BOT_TOKEN, TELEGRAM_CHAT_ID set or not
    topN,        \* run: the parsed --top argument
    universe,    \* run: the assets and contexts the Hyperliquid API returns
    assetCtxsLength, \* run: how many of the assets the returned assetCtxs array covers
    loopIndex,   \* run: the loop index i of generateSignals
    analyses,    \* run: the analyses array
    topSignals,  \* run: the topSignals array
    luziaCalls,  \* run: the assets fetchLuziaTicker was called for, in order
    luziaRequests, \* run: the assets a Luzia HTTP request was made for, in order
    analysed,    \* run: the assets analyzeAsset was called for, in order
    printed,     \* run: the assets whose signal block was printed (v1.0), in order
    sent,        \* run: the Telegram deliveries that resolved: [asset, ok], in order
    exitCode,    \* run: the status process.exit was called with, or -1
    failures,    \* run: the failures that happened: [kind, asset], in order
    histArgs,    \* history: the arguments [currentPrice, change24h] of generateSimulatedHistory
    random,      \* history: the results of Math.random(), a repeating pattern of three
    histLoop,    \* history: the loop variables: i, and price as the value
    history,     \* history: the history array
    latestSignals, \* server: the latestSignals variable (Null, or the parsed signals)
    lastUpdate,  \* server: the lastUpdate variable (Null, or the time of the update)
    clock,       \* server: the time new Date() gives
    pending,     \* server: the requests received and not yet handled, in order
    refreshLog,  \* server: the calls of refreshSignals that returned: [ok, returned, time], in order
    responses,   \* server: the bodies /api/signals and /api/refresh answered with, in order
    pc           \* the position of the behaviour in its part of the program

riskVars == <<signal, accountBalance, riskProfile, plan>>
scoreVars == <<hyperData, luziaData, indicators, analysis>>
indVars == <<prices, call, ret>>
runVars == <<env, topN, universe, assetCtxsLength, loopIndex, analyses, topSignals, luziaCalls,
             luziaRequests, analysed, printed, sent, exitCode, failures>>

histVars == <<histArgs, random, histLoop, history>>

serverVars == <<latestSignals, lastUpdate, clock, pending, refreshLog, responses>>

vars == <<mode, variant, riskVars, scoreVars, indVars, runVars, histVars, serverVars, pc>>

Variants == {"telegram", "v1"}

Biases == {"BULLISH", "BEARISH", "NEUTRAL"}

\* ------------------------------------------------------------------------
\* Exact rationals
\* ------------------------------------------------------------------------

Abs(x) == IF x < 0 THEN -x ELSE x

RECURSIVE GCD(_, _)
GCD(a, b) == IF b = 0 THEN a ELSE GCD(b, a % b)

\* the rational n/d (d # 0) in lowest terms with a positive denominator
Rat(n, d) ==
    LET g == GCD(Abs(n), Abs(d))
        s == IF d < 0 THEN -1 ELSE 1
    IN  [n |-> (s * n) \div g, d |-> (s * d) \div g]

RInt(k) == [n |-> k, d |-> 1]

RAdd(a, b) == Rat(a.n * b.d + b.n * a.d, a.d * b.d)
RSub(a, b) == Rat(a.n * b.d - b.n * a.d, a.d * b.d)
RMul(a, b) == Rat(a.n * b.n, a.d * b.d)
RDiv(a, b) == Rat(a.n * b.d, a.d * b.n)
RLt(a, b) == a.n * b.d < b.n * a.d
RLe(a, b) == a.n * b.d <= b.n * a.d
\* Math.min
RMin(a, b) == IF RLt(b, a) THEN b ELSE a
RMax(a, b) == IF RLt(a, b) THEN b ELSE a

\* ------------------------------------------------------------------------
\* Risk management: calculatePositionSize
\* ------------------------------------------------------------------------

MAX_LEVERAGE == 10

RISK_PROFILES ==
    [conservative |-> [risk |-> Rat(1, 100), rr_min |-> RInt(2),  rr_target |-> RInt(3), max_leverage |-> RInt(3)],
     moderate     |-> [risk |-> Rat(2, 100), rr_min |-> RInt(2),  rr_target |-> RInt(3), max_leverage |-> RInt(5)],
     aggressive   |-> [risk |-> Rat(3, 100), rr_min |-> Rat(3, 2), rr_target |-> RInt(2), max_leverage |-> RInt(10)]]

ProfileNames == {"conservative", "moderate", "aggressive"}

\* const stopDistance = signal.atrPercent > 0 ? signal.atrPercent * 1.5 : 5;
StopDistance(sig) ==
    IF RLt(RInt(0), sig.atrPercent) THEN RMul(sig.atrPercent, Rat(3, 2)) ELSE RInt(5)

\* stopDistance / 100
Frac(stopDistance) == RDiv(stopDistance, RInt(100))

\* a faulty stop: every bias but BEARISH is sized as a long
StopLossPriceBullishForOthers(sig, stopDistance) ==
    IF sig.bias # "BEARISH"
    THEN RMul(sig.price, RSub(RInt(1), Frac(stopDistance)))
    ELSE RMul(sig.price, RAdd(RInt(1), Frac(stopDistance)))

\* signal.bias === 'BULLISH' ? price * (1 - sd/100) : price * (1 + sd/100)
StopLossPrice(sig, stopDistance) ==
    IF sig.bias = "BULLISH"
    THEN RMul(sig.price, RSub(RInt(1), Frac(stopDistance)))
    ELSE RMul(sig.price, RAdd(RInt(1), Frac(stopDistance)))

\* a faulty leverage: the cap is forgotten
LeverageUncapped(leverageNeeded, maxLeverage) == leverageNeeded

\* Math.min(leverageNeeded, max_leverage)
LeverageToUse(leverageNeeded, maxLeverage) == RMin(leverageNeeded, maxLeverage)

\* v1: bias === 'BULLISH' ? price * (1 + (sd/100) * rr) : price * (1 - (sd/100) * rr)
TakeProfitPriceV1(sig, stopDistance, rr) ==
    IF sig.bias = "BULLISH"
    THEN RMul(sig.price, RAdd(RInt(1), RMul(Frac(stopDistance), rr)))
    ELSE RMul(sig.price, RSub(RInt(1), RMul(Frac(stopDistance), rr)))

\* telegram: price * (1 + sd / 100 * rr), whatever the bias
TakeProfitPriceTelegram(sig, stopDistance, rr) ==
    RMul(sig.price, RAdd(RInt(1), RMul(Frac(stopDistance), rr)))

\* the simplified variant: calculatePositionSize(signal, accountBalance = 10000, risk = 0.02)
calculatePositionSizeTelegram(sig, balance, risk) ==
    LET riskAmount     == RMul(balance, risk)
        stopDistance   == StopDistance(sig)
        stopLossPrice  == StopLossPrice(sig, stopDistance)
        positionSize   == RDiv(riskAmount, Frac(stopDistance))
        leverageNeeded == RDiv(positionSize, balance)
        leverageToUse  == LeverageToUse(leverageNeeded, RInt(MAX_LEVERAGE))
    IN  [positionSize  |-> positionSize,
         leverageToUse |-> leverageToUse,
         stopLossPrice |-> stopLossPrice,
         stopDistance  |-> stopDistance,
         riskAmount    |-> riskAmount,
         takeProfit1   |-> [rr |-> RInt(3), price |-> TakeProfitPriceTelegram(sig, stopDistance, RInt(3))],
         takeProfit2   |-> [rr |-> RInt(6), price |-> TakeProfitPriceTelegram(sig, stopDistance, RInt(6))],
         takeProfit3   |-> [rr |-> RInt(9), price |-> TakeProfitPriceTelegram(sig, stopDistance, RInt(9))]]

\* the risk-profile variant: calculatePositionSize(signal, accountBalance, riskProfile)
calculatePositionSizeV1(sig, balance, profile) ==
    LET riskAmount     == RMul(balance, profile.risk)
        stopDistance   == StopDistance(sig)
        stopLossPrice  == StopLossPrice(sig, stopDistance)
        positionSize   == RDiv(riskAmount, Frac(stopDistance))
        leverageNeeded == RDiv(positionSize, balance)
        leverageToUse  == LeverageToUse(leverageNeeded, profile.max_leverage)
        rr_target      == profile.rr_target
    IN  [positionSize  |-> positionSize,
         leverageToUse |-> leverageToUse,
         stopLossPrice |-> stopLossPrice,
         stopDistance  |-> stopDistance,
         riskAmount    |-> riskAmount,
         takeProfit1   |-> [rr |-> rr_target,
                            price |-> TakeProfitPriceV1(sig, stopDistance, rr_target)],
         takeProfit2   |-> [rr |-> RMul(rr_target, RInt(2)),
                            price |-> TakeProfitPriceV1(sig, stopDistance, RMul(rr_target, RInt(2)))],
         takeProfit3   |-> [rr |-> RMul(rr_target, RInt(3)),
                            price |-> TakeProfitPriceV1(sig, stopDistance, RMul(rr_target, RInt(3)))]]

\* the call of the variant at hand; the simplified variant takes a risk
\* fraction where the other takes a profile
PositionSizeOf(v, sig, balance, profileName) ==
    IF v = "telegram"
    THEN calculatePositionSizeTelegram(sig, balance, RISK_PROFILES[profileName].risk)
    ELSE calculatePositionSizeV1(sig, balance, RISK_PROFILES[profileName])

\* the configured maximum leverage of the call
MaxLeverageOf(v, profileName) ==
    IF v = "telegram" THEN RInt(MAX_LEVERAGE) ELSE RISK_PROFILES[profileName].max_leverage

\* ------------------------------------------------------------------------
\* Fixed point
\* ------------------------------------------------------------------------

\* fixed-point unit: the number x is held as x * Scale (volumes and scores
\* are whole numbers and are held as they are)
Scale == 1000

\* a / b for two integers, rounded to the nearest integer (b # 0)
Rnd(a, b) == IF b > 0 THEN (2 * a + b) \div (2 * b) ELSE (-2 * a - b) \div (-2 * b)

\* the number n/d in fixed point
Fx(n, d) == Rnd(n * Scale, d)

\* ------------------------------------------------------------------------
\* Signal generation: the scoring rules of analyzeAsset
\* ------------------------------------------------------------------------

NoBias == "none"

\* the effect of one rule: a score delta, the labels pushed, a bias override
Effect(delta, labels, bias) == [delta |-> delta, labels |-> labels, bias |-> bias]

NoEffect == Effect(0, <<>>, NoBias)

\* a faulty RSI chain: the bounds of the first two tests are inclusive
RsiRuleInclusive(v, rsi) ==
    IF rsi <= Fx(30, 1) THEN Effect(25, <<"RSI Oversold">>, "BULLISH")
    ELSE IF rsi >= Fx(70, 1) THEN Effect(-15, <<"RSI Overbought">>, "BEARISH")
    ELSE IF rsi > Fx(55, 1) THEN Effect(15, <<"RSI Bullish">>, "BULLISH")
    ELSE IF rsi < Fx(45, 1) THEN Effect(-10, <<"RSI Weak">>, "BEARISH")
    ELSE IF v = "telegram" THEN Effect(5, <<>>, NoBias)
    ELSE NoEffect

\* RSI scoring: the if / else-if chain; only the Telegram variant ends it
\* with else { score += 5; }
RsiRule(v, rsi) ==
    IF rsi < Fx(30, 1) THEN Effect(25, <<"RSI Oversold">>, "BULLISH")
    ELSE IF rsi > Fx(70, 1) THEN Effect(-15, <<"RSI Overbought">>, "BEARISH")
    ELSE IF rsi > Fx(55, 1) THEN Effect(15, <<"RSI Bullish">>, "BULLISH")
    ELSE IF rsi < Fx(45, 1) THEN Effect(-10, <<"RSI Weak">>, "BEARISH")
    ELSE IF v = "telegram" THEN Effect(5, <<>>, NoBias)
    ELSE NoEffect

\* macd.histogram > 0; the record calculateMACD returns for a short series
\* has no histogram, and undefined > 0 is false
HistogramPositive(macd) == macd.hasHistogram /\ macd.histogram > 0

\* MACD scoring
MacdRule(macd) ==
    IF macd.bullish /\ HistogramPositive(macd) THEN Effect(20, <<"MACD Bullish">>, NoBias)
    ELSE IF macd.bullish THEN Effect(10, <<"MACD Above Signal">>, NoBias)
    ELSE NoEffect

\* [ema9, ema21, ema50].filter(e => price > e).length
AboveEMA(price, ind) ==
    Cardinality({k \in {"ema9", "ema21", "ema50"} : price > ind[k]})

\* a faulty EMA chain: the rule for no EMA below the price leaves the bias
EmaRuleNoBearish(price, ind) ==
    LET aboveEMA == AboveEMA(price, ind)
    IN  IF aboveEMA = 3 THEN Effect(20, <<"Strong Uptrend">>, "BULLISH")
        ELSE IF aboveEMA = 2 THEN Effect(10, <<"Moderate Uptrend">>, "BULLISH")
        ELSE IF aboveEMA = 0 THEN Effect(-20, <<>>, NoBias)
        ELSE NoEffect

\* EMA alignment
EmaRule(price, ind) ==
    LET aboveEMA == AboveEMA(price, ind)
    IN  IF aboveEMA = 3 THEN Effect(20, <<"Strong Uptrend">>, "BULLISH")
        ELSE IF aboveEMA = 2 THEN Effect(10, <<"Moderate Uptrend">>, "BULLISH")
        ELSE IF aboveEMA = 0 THEN Effect(-20, <<>>, "BEARISH")
        ELSE NoEffect

\* bb.position < -1 and bb.position > 1; a comparison with NaN is false
BbBelow(bb) ==
    bb.positionIs = "-Infinity" \/ (bb.positionIs = "number" /\ bb.position < Fx(-1, 1))
BbAbove(bb) ==
    bb.positionIs = "Infinity" \/ (bb.positionIs = "number" /\ bb.position > Fx(1, 1))

\* a faulty Bollinger chain: the rule for the lower band is missing
BbRuleUpperOnly(v, bb) ==
    IF v # "v1" THEN NoEffect
    ELSE IF BbAbove(bb) THEN Effect(-10, <<"BB at Upper Band">>, NoBias)
    ELSE NoEffect

\* Bollinger Bands: rules of the v1.0 variant only
BbRule(v, bb) ==
    IF v # "v1" THEN NoEffect
    ELSE IF BbBelow(bb) THEN Effect(15, <<"BB at Lower Band">>, NoBias)
    ELSE IF BbAbove(bb) THEN Effect(-10, <<"BB at Upper Band">>, NoBias)
    ELSE NoEffect

\* Momentum
MomentumRule(change24h) ==
    IF change24h > Fx(5, 1) THEN Effect(10, <<"Strong Momentum">>, NoBias)
    ELSE IF change24h < Fx(-5, 1) THEN Effect(-10, <<"Weak Momentum">>, NoBias)
    ELSE NoEffect

\* Funding; the two variants push different labels
FundingRule(v, funding) ==
    IF funding < Fx(-5, 100)
    THEN Effect(10, IF v = "v1" THEN <<"Negative Funding (Shorts)">>
                    ELSE <<"Negative Funding">>, NoBias)
    ELSE IF funding > Fx(5, 100)
    THEN Effect(-10, IF v = "v1" THEN <<"Positive Funding (Longs)">>
                     ELSE <<"Positive Funding">>, NoBias)
    ELSE NoEffect

\* a faulty volume score: the lower threshold is inclusive
VolumeScoreInclusive(volume) ==
    IF volume > 50000000 THEN 15 ELSE IF volume >= 20000000 THEN 10 ELSE 5

\* volume > 50000000 ? 15 : volume > 20000000 ? 10 : 5
VolumeScore(volume) ==
    IF volume > 50000000 THEN 15 ELSE IF volume > 20000000 THEN 10 ELSE 5

\* the rules in the order the code evaluates them
RuleEffects(v, hyper, change24h, ind) ==
    <<RsiRule(v, ind.rsi),
      MacdRule(ind.macd),
      EmaRule(hyper.markPx, ind),
      BbRule(v, ind.bb),
      MomentumRule(change24h),
      FundingRule(v, hyper.funding)>>

RECURSIVE SumDeltas(_)
SumDeltas(effects) ==
    IF effects = <<>> THEN 0 ELSE effects[1].delta + SumDeltas(Tail(effects))

RECURSIVE AllLabels(_)
AllLabels(effects) ==
    IF effects = <<>> THEN <<>> ELSE effects[1].labels \o AllLabels(Tail(effects))

\* bias starts at `bias` and is overwritten by each rule that sets it
RECURSIVE LastBias(_, _)
LastBias(bias, effects) ==
    IF effects = <<>> THEN bias
    ELSE LastBias(IF effects[1].bias # NoBias THEN effects[1].bias ELSE bias, Tail(effects))

\* luziaData?.change24h || hyperData.momentum: a missing, null or zero
\* change24h falls through to the momentum
Change24h(hyper, luzia) ==
    IF luzia.present /\ luzia.hasChange24h /\ luzia.change24h # 0
    THEN luzia.change24h ELSE hyper.momentum

\* (atr / price) * 100
AtrPercent(atr, price) == IF price = 0 THEN 0 ELSE Rnd(atr * 100 * Scale, price)

\* analyzeAsset from `let score = 0` on: the rules and the returned signal
ScoreSignal(v, asset, hyper, change24h, ind) ==
    LET effects == RuleEffects(v, hyper, change24h, ind)
    IN  [asset      |-> asset,
         score      |-> SumDeltas(effects) + VolumeScore(hyper.volume),
         signals    |-> AllLabels(effects),
         bias       |-> LastBias("NEUTRAL", effects),
         price      |-> hyper.markPx,
         rsi        |-> ind.rsi,
         macd       |-> ind.macd,
         atr        |-> ind.atr,
         atrPercent |-> AtrPercent(ind.atr, hyper.markPx),
         ema9       |-> ind.ema9,
         ema21      |-> ind.ema21,
         ema50      |-> ind.ema50,
         change24h  |-> change24h,
         funding    |-> hyper.funding,
         volume     |-> hyper.volume,
         fmScore    |-> hyper.fmScore]

\* luziaData values: null, an object without change24h, an object with it
NoLuzia == [present |-> FALSE, hasChange24h |-> FALSE, change24h |-> 0]
LuziaWithout == [present |-> TRUE, hasChange24h |-> FALSE, change24h |-> 0]
LuziaWith(c) == [present |-> TRUE, hasChange24h |-> TRUE, change24h |-> c]

\* the record calculateMACD returns
Macd(macdLine, signalLine, histogram, hasHistogram, bullish) ==
    [macd |-> macdLine, signal |-> signalLine, histogram |-> histogram,
     hasHistogram |-> hasHistogram, bullish |-> bullish]

\* { macd: 0, signal: 0, bullish: true }
MacdDefault == Macd(0, 0, 0, FALSE, TRUE)

\* inputs of the scoring rules
ScorePrice == Fx(10, 1)
ScoreRsis == {Fx(k, 1) : k \in {25, 30, 40, 45, 50, 55, 60, 70, 75}}
ScoreMacds ==
    {MacdDefault,
     Macd(Fx(10, 3), Fx(17, 6), Fx(1, 2), TRUE, TRUE),
     Macd(Fx(-10, 3), Fx(-17, 6), Fx(-1, 2), TRUE, FALSE)}
\* ema9, ema21, ema50 around the price
ScoreEmas ==
    {<<Fx(9, 1), Fx(9, 1), Fx(9, 1)>>, <<Fx(9, 1), Fx(11, 1), Fx(9, 1)>>,
     <<Fx(11, 1), Fx(11, 1), Fx(9, 1)>>, <<Fx(11, 1), Fx(11, 1), Fx(11, 1)>>,
     <<Fx(10, 1), Fx(10, 1), Fx(10, 1)>>}
ScoreBbPositions == {Fx(-2, 1), Fx(-1, 1), Fx(0, 1), Fx(2, 1)}
ScoreChanges == {Fx(-7, 1), Fx(5, 1), Fx(7, 1)}
ScoreLuzias == {NoLuzia, LuziaWithout, LuziaWith(0), LuziaWith(Fx(7, 1))}
ScoreFundings == {Fx(-8, 100), Fx(5, 100), Fx(8, 100)}
ScoreVolumes == {5000000, 20000000, 30000000, 60000000}

ScoreIndicators ==
    {[rsi |-> r, macd |-> m, ema9 |-> e[1], ema21 |-> e[2], ema50 |-> e[3],
      bb |-> [upper |-> 0, middle |-> 0, lower |-> 0, position |-> b, positionIs |-> "number"],
      atr |-> Fx(4, 10)] :
        r \in ScoreRsis, m \in ScoreMacds, e \in ScoreEmas, b \in ScoreBbPositions}

ScoreHyperData ==
    {[funding |-> f, fmScore |-> 0, markPx |-> ScorePrice, momentum |-> c, volume |-> vol] :
        f \in ScoreFundings, c \in ScoreChanges, vol \in ScoreVolumes}

NoIndicators ==
    [rsi |-> 0, macd |-> MacdDefault, ema9 |-> 0, ema21 |-> 0, ema50 |-> 0,
     bb |-> [upper |-> 0, middle |-> 0, lower |-> 0, position |-> 0, positionIs |-> "number"],
     atr |-> 0]

NoHyperData == [funding |-> 0, fmScore |-> 0, markPx |-> 0, momentum |-> 0, volume |-> 0]

\* the value of `analysis` before analyzeAsset has returned
NoAnalysis == ScoreSignal("telegram", "", NoHyperData, 0, NoIndicators)

ScoreIdle ==
    /\ hyperData = NoHyperData
    /\ luziaData = NoLuzia
    /\ indicators = NoIndicators
    /\ analysis = NoAnalysis

\* ------------------------------------------------------------------------
\* Technical analysis: the indicator functions (fixed point)
\* ------------------------------------------------------------------------

\* a / b for two fixed-point numbers, b # 0
FDiv(a, b) == Rnd(a * Scale, b)

\* a * b for two fixed-point numbers
FMul(a, b) == Rnd(a * b, Scale)

\* arr.reduce((a, b) => a + b, 0)
RECURSIVE Sum(_)
Sum(arr) == IF arr = <<>> THEN 0 ELSE arr[1] + Sum(Tail(arr))

\* arr.slice(0, k) for 0 <= k
SliceFirst(arr, k) == SubSeq(arr, 1, IF k < Len(arr) THEN k ELSE Len(arr))

\* arr.slice(-k) for k > 0
SliceLast(arr, k) == SubSeq(arr, IF Len(arr) > k THEN Len(arr) - k + 1 ELSE 1, Len(arr))

\* change = prices[i] - prices[i - 1], for i = 1 .. length - 1 (0-based)
Changes(ps) == [i \in 1..(Len(ps) - 1) |-> ps[i + 1] - ps[i]]

\* gains.push(change > 0 ? change : 0)
GainOf(change) == IF change > 0 THEN change ELSE 0

\* a faulty loss: every change that is not zero counts as a loss
LossOfAnyChange(change) == IF change # 0 THEN Abs(change) ELSE 0

\* losses.push(change < 0 ? Math.abs(change) : 0)
LossOf(change) == IF change < 0 THEN Abs(change) ELSE 0

Gains(ps) == [i \in 1..(Len(ps) - 1) |-> GainOf(Changes(ps)[i])]
Losses(ps) == [i \in 1..(Len(ps) - 1) |-> LossOf(Changes(ps)[i])]

\* the variables of a smoothing loop: the 0-based index i and the running value
Loop(i, value) == [i |-> i, value |-> value]

\* the Wilder loop: for (i = period; i < xs.length; i++) avg = (avg * (period - 1) + xs[i]) / period
\* (st.i is the 0-based index, xs[st.i + 1] the element, st.value is avg)
RECURSIVE Wilder(_, _, _)
Wilder(st, xs, period) ==
    IF st.i >= Len(xs) THEN st.value
    ELSE Wilder(Loop(st.i + 1, Rnd(st.value * (period - 1) + xs[st.i + 1], period)), xs, period)

\* the average of calculateRSI over gains or losses: the simple average of
\* the last `period` entries, then the Wilder loop from index `period`
RsiAverage(xs, period) ==
    Wilder(Loop(period, Rnd(Sum(SliceLast(xs, period)), period)), xs, period)

calculateRSI(ps, period) ==
    IF Len(ps) < period + 1 THEN Fx(50, 1)
    ELSE LET avgGain == RsiAverage(Gains(ps), period)
             avgLoss == RsiAverage(Losses(ps), period)
         IN  IF avgLoss = 0 THEN Fx(100, 1)
             ELSE Fx(100, 1) - FDiv(Fx(100, 1), Fx(1, 1) + FDiv(avgGain, avgLoss))

\* the loop of calculateEMA: for (i = period; i < data.length; i++)
\* ema = (data[i] - ema) * multiplier + ema   (st.value is ema)
RECURSIVE EmaLoop(_, _, _)
EmaLoop(st, data, multiplier) ==
    IF st.i >= Len(data) THEN st.value
    ELSE EmaLoop(Loop(st.i + 1, FMul(data[st.i + 1] - st.value, multiplier) + st.value),
                 data, multiplier)

calculateEMA(data, period) ==
    IF Len(data) < period THEN data[Len(data)]
    ELSE EmaLoop(Loop(period, Rnd(Sum(SliceFirst(data, period)), period)),
                 data, Fx(2, period + 1))

\* the length below which calculateMACD returns its default
MacdMinLength == 35

\* a faulty MACD: a MACD line that equals its signal line counts as bullish
MacdOfBullishWhenEqual(ps) ==
    LET ema12      == calculateEMA(ps, 12)
        ema26      == calculateEMA(ps, 26)
        macdLine   == (ema12 - ema26) * 100
        signalLine == (ema12 - ema26) * 85
    IN  Macd(macdLine, signalLine, macdLine - signalLine, TRUE, macdLine >= signalLine)

\* the MACD line and what calculateMACD derives from it: signalLine =
\* macdLine * 0.85, histogram = macdLine - signalLine, bullish = macdLine >
\* signalLine.  The three numbers of the record are in hundredths of the
\* fixed-point unit, in which the product by 0.85 is exact: as for a double
\* x, x * 0.85 differs from x unless x is 0
MacdOf(ps) ==
    LET ema12      == calculateEMA(ps, 12)
        ema26      == calculateEMA(ps, 26)
        macdLine   == (ema12 - ema26) * 100
        signalLine == (ema12 - ema26) * 85
    IN  Macd(macdLine, signalLine, macdLine - signalLine, TRUE, macdLine > signalLine)

\* a faulty MACD: the default is returned only below the slow EMA's period
calculateMACDShortGuard(ps) ==
    IF Len(ps) < 26 THEN MacdDefault ELSE MacdOf(ps)

calculateMACD(ps) ==
    IF Len(ps) < MacdMinLength THEN MacdDefault ELSE MacdOf(ps)

\* Math.sqrt of a fixed-point number: the largest r with r * r <= x * Scale
RECURSIVE SqrtSearch(_, _, _)
SqrtSearch(x, lo, hi) ==
    IF lo >= hi THEN lo
    ELSE LET mid == (lo + hi + 1) \div 2
         IN  IF mid * mid <= x * Scale THEN SqrtSearch(x, mid, hi)
             ELSE SqrtSearch(x, lo, mid - 1)

FSqrt(x) == SqrtSearch(x, 0, 40000)

\* the record calculateBollingerBands returns; position is a division and
\* is NaN (0 / 0) or an infinity (x / 0) for a zero deviation
Bands(upper, middle, lower, position, positionIs) ==
    [upper |-> upper, middle |-> middle, lower |-> lower,
     position |-> position, positionIs |-> positionIs]

BandsZero == Bands(0, 0, 0, 0, "number")

calculateBollingerBands(ps, period, stdMult) ==
    IF Len(ps) < period THEN BandsZero
    ELSE LET slice  == SliceLast(ps, period)
             sma    == Rnd(Sum(slice), period)
             sq     == [i \in 1..Len(slice) |-> FMul(slice[i] - sma, slice[i] - sma)]
             stdDev == FSqrt(Rnd(Sum(sq), period))
             currentPrice == ps[Len(ps)]
         IN  Bands(sma + stdDev * stdMult, sma, sma - stdDev * stdMult,
                   IF stdDev = 0 THEN 0 ELSE FDiv(currentPrice - sma, stdDev * 2),
                   IF stdDev # 0 THEN "number"
                   ELSE IF currentPrice = sma THEN "NaN"
                   ELSE IF currentPrice > sma THEN "Infinity" ELSE "-Infinity")

Max2(a, b) == IF a >= b THEN a ELSE b

\* Math.max(highs[i] - lows[i], |highs[i] - closes[i-1]|, |lows[i] - closes[i-1]|), i = 1 .. length - 1
TrueRanges(highs, lows, closes) ==
    [i \in 1..(Len(highs) - 1) |->
        Max2(highs[i + 1] - lows[i + 1],
             Max2(Abs(highs[i + 1] - closes[i]), Abs(lows[i + 1] - closes[i])))]

calculateATR(highs, lows, closes, period) ==
    IF Len(highs) < period + 1 THEN 0
    ELSE LET trs == TrueRanges(highs, lows, closes)
         IN  Wilder(Loop(period, Rnd(Sum(SliceFirst(trs, period)), period)), trs, period)

\* prices.map(p => p * 1.02) and prices.map(p => p * 0.98)
Highs(ps) == [i \in 1..Len(ps) |-> FMul(ps[i], Fx(102, 100))]
Lows(ps) == [i \in 1..Len(ps) |-> FMul(ps[i], Fx(98, 100))]

\* default periods: calculateRSI(prices, period = 14), calculateATR(.., period = 14),
\* calculateBollingerBands(prices, period = 20, stdMult = 2)
RsiPeriod == 14
AtrPeriod == 14
BbPeriod == 20
BbStdMult == 2

\* the periods calculateEMA is called with on short series
EmaPeriods == {9, 12, 21, 26}

\* inputs of the indicator functions: series of 1 .. MaxLen prices that
\* start at BasePrice and move by a repeating pattern of three steps
MaxLen == 36
BasePrice == Fx(10, 1)
Steps == {Fx(-1, 10), 0, Fx(1, 10), Fx(2, 10)}
Patterns == Steps \X Steps \X Steps

RECURSIVE Series(_, _, _, _)
Series(acc, price, pat, n) ==
    IF Len(acc) >= n THEN acc
    ELSE Series(Append(acc, price), price + pat[(Len(acc) % 3) + 1], pat, n)

PriceSeries == {Series(<<>>, BasePrice, pat, n) : pat \in Patterns, n \in 1..MaxLen}

NoCall == [fn |-> "none", period |-> 0]
Call(fn, period) == [fn |-> fn, period |-> period]

\* the value of `ret`: a number, a MACD record or a Bollinger record,
\* as the function called returns
Ret(num, macd, bb) == [num |-> num, macd |-> macd, bb |-> bb]
NoRet == Ret(0, MacdDefault, BandsZero)

IndIdle ==
    /\ prices = <<>>
    /\ call = NoCall
    /\ ret = NoRet

\* ------------------------------------------------------------------------
\* Main: generateSignals
\* ------------------------------------------------------------------------

\* the result of parseInt: an integer or NaN
Num(k) == [nan |-> FALSE, value |-> k]
NaN == [nan |-> TRUE, value |-> 0]

\* arr.slice(0, end): a NaN end is 0, a negative end counts from the back
Slice0(arr, end) ==
    LET len == Len(arr)
        k   == IF end.nan THEN 0
               ELSE IF end.value < 0 THEN (IF len + end.value < 0 THEN 0 ELSE len + end.value)
               ELSE IF end.value > len THEN len ELSE end.value
    IN  SubSeq(arr, 1, k)

\* where the sort puts x among the sorted xs: after every element that
\* does not score lower (the sort is stable)
RECURSIVE InsertByScore(_, _)
InsertByScore(xs, x) ==
    IF xs = <<>> THEN <<x>>
    ELSE IF xs[1].score >= x.score THEN <<xs[1]>> \o InsertByScore(Tail(xs), x)
    ELSE <<x>> \o xs

\* a faulty sort: ascending scores (a.score - b.score)
RECURSIVE SortAscending(_)
SortAscending(xs) ==
    IF xs = <<>> THEN <<>>
    ELSE LET rest == SortAscending(SubSeq(xs, 1, Len(xs) - 1))
             x    == xs[Len(xs)]
             k    == Cardinality({j \in 1..Len(rest) : rest[j].score <= x.score})
         IN  SubSeq(rest, 1, k) \o <<x>> \o SubSeq(rest, k + 1, Len(rest))

\* analyses.sort((a, b) => b.score - a.score)
RECURSIVE SortByScore(_)
SortByScore(xs) ==
    IF xs = <<>> THEN <<>>
    ELSE InsertByScore(SortByScore(SubSeq(xs, 1, Len(xs) - 1)), xs[Len(xs)])

\* the pre-filter threshold: if (volume < 5000000) continue
MinVolume == 5000000

\* a faulty pre-filter: the threshold itself is skipped too
SkippedInclusive(volume) == volume <= MinVolume

\* volume < 5000000
Skipped(volume) == volume < MinVolume

\* parseFloat(assetCtxs[i].dayNtlVlm || '0') * 1000000
VolumeOf(ctx) == ctx.dayNtlVlm * 1000000

\* prevPrice > 0 ? ((markPrice - prevPrice) / prevPrice) * 100 : 0
MomentumOf(ctx) ==
    IF ctx.prevDayPx > 0 THEN FMul(FDiv(ctx.markPx - ctx.prevDayPx, ctx.prevDayPx), Fx(100, 1))
    ELSE 0

\* Math.abs(funding) * Math.abs(momentum / 100) * 10000
FmScoreOf(ctx) ==
    FMul(FMul(Abs(ctx.funding), Abs(FDiv(MomentumOf(ctx), Fx(100, 1)))), Fx(10000, 1))

\* the hyperData object passed to analyzeAsset
HyperDataOf(ctx) ==
    [funding |-> ctx.funding, fmScore |-> FmScoreOf(ctx), markPx |-> ctx.markPx,
     momentum |-> MomentumOf(ctx), volume |-> VolumeOf(ctx)]

\* the number of assets of a run
MaxAssets == 2

AssetNames == <<"BTC", "ETH", "SOL", "XRP", "DOGE", "AVAX">>

\* dayNtlVlm values: below, at and above the pre-filter, and twice above
\* the volume-score thresholds
DayVolumes == {4, 5, 30}

\* the asset context of the k-th asset with day volume `vlm`
Ctx(k, vlm) ==
    [name |-> AssetNames[k], dayNtlVlm |-> vlm, markPx |-> Fx(10, 1),
     prevDayPx |-> Fx(8 + k, 1), funding |-> Fx(k - 2, 10)]

Universes ==
    UNION {{[k \in 1..n |-> Ctx(k, vlms[k])] : vlms \in [1..n -> DayVolumes]} : n \in 0..MaxAssets}

\* the indicator values a random history may give: a weak and a strong set
RunIndicators ==
    {[rsi |-> Fx(75, 1), macd |-> Macd(Fx(-10, 3), Fx(-17, 6), Fx(-1, 2), TRUE, FALSE),
      ema9 |-> Fx(11, 1), ema21 |-> Fx(11, 1), ema50 |-> Fx(11, 1),
      bb |-> Bands(0, 0, 0, Fx(2, 1), "number"), atr |-> Fx(4, 10)],
     [rsi |-> Fx(25, 1), macd |-> Macd(Fx(10, 3), Fx(17, 6), Fx(1, 2), TRUE, TRUE),
      ema9 |-> Fx(9, 1), ema21 |-> Fx(9, 1), ema50 |-> Fx(9, 1),
      bb |-> Bands(0, 0, 0, 0, "number"), atr |-> Fx(4, 10)]}

\* what a Luzia ticker request may resolve to
LuziaAnswers == {NoLuzia, LuziaWith(Fx(7, 1))}

\* the lengths of the assetCtxs array of a response: one context per asset
\* of the universe, or the last one missing
AssetCtxsLengths(u) == {Len(u)} \cup {Len(u) - 1 : k \in 1..(IF Len(u) > 0 THEN 1 ELSE 0)}

\* a failure of a run: what failed and, when it concerns one asset, which
Failure(kind, asset) == [kind |-> kind, asset |-> asset]

\* how the Hyperliquid fetch fails before the loop: the request is
\* rejected, the body does not parse, or data[0].universe or data[1] is missing
FetchFailures == {"rejected", "unparsable", "incomplete"}

TopNs == {NaN, Num(-1), Num(0), Num(1), Num(2), Num(10)}

Envs == [luziaKey : BOOLEAN, cronMode : BOOLEAN, botToken : BOOLEAN, chatId : BOOLEAN]

NoEnv == [luziaKey |-> FALSE, cronMode |-> FALSE, botToken |-> FALSE, chatId |-> FALSE]

RunIdle ==
    /\ env = NoEnv
    /\ topN = Num(10)
    /\ universe = <<>>
    /\ assetCtxsLength = 0
    /\ loopIndex = 0
    /\ analyses = <<>>
    /\ topSignals = <<>>
    /\ luziaCalls = <<>>
    /\ luziaRequests = <<>>
    /\ analysed = <<>>
    /\ printed = <<>>
    /\ sent = <<>>
    /\ exitCode = -1
    /\ failures = <<>>

\* ------------------------------------------------------------------------
\* The synthetic price history: generateSimulatedHistory
\* ------------------------------------------------------------------------

\* the iterations of the loop: for (let i = 0; i < 60; i++)
HistorySteps == 60

\* let price = currentPrice / (1 + change24h / 100), for change24h # -100
StartPrice(args) == FDiv(args.currentPrice, Fx(1, 1) + FDiv(args.change24h, Fx(100, 1)))

\* the price after one advance, r being the result of Math.random():
\* drift = (currentPrice - price) / 60; noise = (r - 0.5) * price * 0.02;
\* price = Math.max(price + drift + noise, price * 0.95)
Advance(args, p, r) ==
    LET drift == Rnd(args.currentPrice - p, 60)
        noise == FMul(FMul(r - Fx(1, 2), p), Fx(2, 100))
    IN  Max2(p + drift + noise, FMul(p, Fx(95, 100)))

\* the result of Math.random() in iteration i (0-based)
RandomAt(i) == random[(i % 3) + 1]

\* results of Math.random(): the least, the middle and nearly the largest
Randoms == {0, Fx(1, 2), Scale - 1}
RandomPatterns == Randoms \X Randoms \X Randoms

\* arguments: a price above and below one; a 24h change that halves,
\* keeps, raises and doubles the price, and one below -100
HistoryArgs == [currentPrice : {Fx(10, 1), Fx(1, 2)},
                change24h : {Fx(-200, 1), Fx(-50, 1), 0, Fx(7, 1), Fx(100, 1)}]

NoHistoryArgs == [currentPrice |-> 0, change24h |-> 0]

HistIdle ==
    /\ histArgs = NoHistoryArgs
    /\ random = <<0, 0, 0>>
    /\ histLoop = Loop(0, 0)
    /\ history = <<>>

\* ------------------------------------------------------------------------
\* The dashboard server (src/server.js)
\* ------------------------------------------------------------------------

\* null, and a value that is not null
Null == [null |-> TRUE, value |-> <<>>]
Value(v) == [null |-> FALSE, value |-> <<v>>]

\* a line of the output of the signal service: what the parser finds in
\* it first ("signal" for 'SIGNAL #', "direction", "score", "price", or
\* "other") and the text after the marker, trimmed
Line(kind, text) == [kind |-> kind, text |-> text]

Undefined == "undefined"

\* currentSignal = { raw: line }
NewSignal(line) ==
    [raw |-> line.text, direction |-> Undefined, score |-> Undefined, price |-> Undefined]

\* the variables of the parsing loop after the lines before index i
Parsing(i, signals, currentSignal) == [i |-> i, signals |-> signals, currentSignal |-> currentSignal]

\* one line of the parsing loop: the if / else-if chain
ParseLine(st, line) ==
    IF line.kind = "signal"
    THEN Parsing(st.i + 1,
                 IF st.currentSignal.null THEN st.signals
                 ELSE Append(st.signals, st.currentSignal.value[1]),
                 Value(NewSignal(line)))
    ELSE IF ~st.currentSignal.null /\ line.kind \in {"direction", "score", "price"}
    THEN Parsing(st.i + 1, st.signals,
                 Value([st.currentSignal.value[1] EXCEPT ![line.kind] = line.text]))
    ELSE Parsing(st.i + 1, st.signals, st.currentSignal)

RECURSIVE ParseLoop(_, _)
ParseLoop(st, lines) ==
    IF st.i >= Len(lines) THEN st ELSE ParseLoop(ParseLine(st, lines[st.i + 1]), lines)

\* the signals refreshSignals parses from the output
ParseSignals(lines) ==
    LET st == ParseLoop(Parsing(0, <<>>, Null), lines)
    IN  IF st.currentSignal.null THEN st.signals
        ELSE Append(st.signals, st.currentSignal.value[1])

\* outputs of a run of the signal service that ends with status 0
Outputs ==
    {<<Line("other", "")>>,
     <<Line("direction", "NEUTRAL"), Line("other", "")>>,
     <<Line("signal", "1: BTC"), Line("direction", "BULLISH (LONG)"),
       Line("score", "85/100"), Line("other", "")>>,
     <<Line("signal", "1: BTC"), Line("score", "85/100"), Line("price", "10"),
       Line("signal", "2: ETH"), Line("direction", "BEARISH (SHORT)")>>}

\* how execSync throws: the service exits with a status that is not 0, or
\* runs longer than the timeout
ExecFailures == {"status", "timeout"}

\* the requests a behaviour receives at most
MaxRequests == 3

Requests == {"refresh", "signals"}

\* the body of a response: { signals: latestSignals, lastUpdate } or
\* { success: true, lastUpdate }; `after` counts the refreshes that had
\* returned when it was built
Response(route, signals, update, after) ==
    [route |-> route, signals |-> signals, lastUpdate |-> update, after |-> after]

\* an entry of refreshLog
Refreshed(ok, returned, time) == [ok |-> ok, returned |-> returned, time |-> time]

ServerIdle ==
    /\ latestSignals = Null
    /\ lastUpdate = Null
    /\ clock = 0
    /\ pending = <<>>
    /\ refreshLog = <<>>
    /\ responses = <<>>

\* inputs of the risk sizer
RiskPrices == {RInt(1), RInt(100), Rat(5, 2)}
RiskAtrPercents == {RInt(0), Rat(1, 100), RInt(2), RInt(4), RInt(40), RInt(80)}
RiskBalances == {RInt(1), RInt(500), RInt(10000)}

RiskSignals ==
    [bias : Biases, price : RiskPrices, atrPercent : RiskAtrPercents]

\* the value of `plan` before calculatePositionSize has returned
NoPlan ==
    [positionSize  |-> RInt(0), leverageToUse |-> RInt(0), stopLossPrice |-> RInt(0),
     stopDistance  |-> RInt(0), riskAmount |-> RInt(0),
     takeProfit1   |-> [rr |-> RInt(0), price |-> RInt(0)],
     takeProfit2   |-> [rr |-> RInt(0), price |-> RInt(0)],
     takeProfit3   |-> [rr |-> RInt(0), price |-> RInt(0)]]

RiskIdle ==
    /\ signal = [bias |-> "NEUTRAL", price |-> RInt(0), atrPercent |-> RInt(0)]
    /\ accountBalance = RInt(0)
    /\ riskProfile = "moderate"
    /\ plan = NoPlan

InitRisk ==
    /\ mode = "risk"
    /\ pc = "start"
    /\ variant \in Variants
    /\ signal \in RiskSignals
    /\ accountBalance \in RiskBalances
    /\ riskProfile \in ProfileNames
    /\ plan = NoPlan
    /\ ScoreIdle
    /\ IndIdle
    /\ RunIdle
    /\ HistIdle
    /\ ServerIdle

\* one call of calculatePositionSize
SizePosition ==
    /\ mode = "risk"
    /\ pc = "start"
    /\ pc' = "sized"
    /\ plan' = PositionSizeOf(variant, signal, accountBalance, riskProfile)
    /\ UNCHANGED <<mode, variant, signal, accountBalance, riskProfile, scoreVars, indVars, runVars, histVars, serverVars>>

NextRisk == SizePosition

SpecRisk == InitRisk /\ [][NextRisk]_vars

InitScore ==
    /\ mode = "score"
    /\ pc = "start"
    /\ variant \in Variants
    /\ hyperData \in ScoreHyperData
    /\ luziaData \in ScoreLuzias
    /\ indicators \in ScoreIndicators
    /\ analysis = NoAnalysis
    /\ RiskIdle
    /\ IndIdle
    /\ RunIdle
    /\ HistIdle
    /\ ServerIdle

\* the scoring part of one call of analyzeAsset, on the indicator values
\* the history gave
ScoreAsset ==
    /\ mode = "score"
    /\ pc = "start"
    /\ pc' = "scored"
    /\ analysis' = ScoreSignal(variant, "BTC", hyperData,
                               Change24h(hyperData, luziaData), indicators)
    /\ UNCHANGED <<mode, variant, hyperData, luziaData, indicators, riskVars, indVars, runVars, histVars, serverVars>>

NextScore == ScoreAsset

SpecScore == InitScore /\ [][NextScore]_vars

InitInd ==
    /\ mode = "ind"
    /\ pc = "start"
    /\ variant \in Variants
    /\ prices \in PriceSeries
    /\ call = NoCall
    /\ ret = NoRet
    /\ RiskIdle
    /\ ScoreIdle
    /\ RunIdle
    /\ HistIdle
    /\ ServerIdle

\* calculateRSI(prices), with the default period
CallRSI ==
    /\ mode = "ind"
    /\ pc = "start"
    /\ pc' = "returned"
    /\ call' = Call("rsi", RsiPeriod)
    /\ ret' = Ret(calculateRSI(prices, RsiPeriod), MacdDefault, BandsZero)
    /\ UNCHANGED <<mode, variant, prices, riskVars, scoreVars, runVars, histVars, serverVars>>

\* calculateEMA(prices, period)
CallEMA ==
    /\ mode = "ind"
    /\ pc = "start"
    /\ pc' = "returned"
    /\ \E period \in EmaPeriods :
          /\ call' = Call("ema", period)
          /\ ret' = Ret(calculateEMA(prices, period), MacdDefault, BandsZero)
    /\ UNCHANGED <<mode, variant, prices, riskVars, scoreVars, runVars, histVars, serverVars>>

\* calculateMACD(prices)
CallMACD ==
    /\ mode = "ind"
    /\ pc = "start"
    /\ pc' = "returned"
    /\ call' = Call("macd", 0)
    /\ ret' = Ret(0, calculateMACD(prices), BandsZero)
    /\ UNCHANGED <<mode, variant, prices, riskVars, scoreVars, runVars, histVars, serverVars>>

\* calculateBollingerBands(prices), with the default period and multiplier;
\* the function exists in the v1.0 variant only
CallBollingerBands ==
    /\ mode = "ind"
    /\ pc = "start"
    /\ variant = "v1"
    /\ pc' = "returned"
    /\ call' = Call("bb", BbPeriod)
    /\ ret' = Ret(0, MacdDefault, calculateBollingerBands(prices, BbPeriod, BbStdMult))
    /\ UNCHANGED <<mode, variant, prices, riskVars, scoreVars, runVars, histVars, serverVars>>

\* calculateATR(highs, lows, prices), with the default period, on the highs
\* and lows analyzeAsset derives from the prices
CallATR ==
    /\ mode = "ind"
    /\ pc = "start"
    /\ pc' = "returned"
    /\ call' = Call("atr", AtrPeriod)
    /\ ret' = Ret(calculateATR(Highs(prices), Lows(prices), prices, AtrPeriod),
                  MacdDefault, BandsZero)
    /\ UNCHANGED <<mode, variant, prices, riskVars, scoreVars, runVars, histVars, serverVars>>

NextInd == CallRSI \/ CallEMA \/ CallMACD \/ CallBollingerBands \/ CallATR

SpecInd == InitInd /\ [][NextInd]_vars

\* generateSignals is entered; the Telegram settings are read by the
\* Telegram variant only
InitRun ==
    /\ mode = "run"
    /\ pc = "fetch"
    /\ variant \in Variants
    /\ env \in Envs
    /\ variant = "v1" => (~env.cronMode /\ ~env.botToken /\ ~env.chatId)
    /\ topN \in TopNs
    /\ universe \in Universes
    /\ assetCtxsLength \in AssetCtxsLengths(universe)
    /\ loopIndex = 0
    /\ analyses = <<>>
    /\ topSignals = <<>>
    /\ luziaCalls = <<>>
    /\ luziaRequests = <<>>
    /\ analysed = <<>>
    /\ printed = <<>>
    /\ sent = <<>>
    /\ exitCode = -1
    /\ failures = <<>>
    /\ RiskIdle
    /\ ScoreIdle
    /\ IndIdle
    /\ HistIdle
    /\ ServerIdle

idleVars == <<mode, variant, riskVars, scoreVars, indVars, histVars, serverVars, env, topN, universe,
              assetCtxsLength>>

\* await fetchHyperliquidData() resolves with a universe and its contexts
FetchData ==
    /\ mode = "run"
    /\ pc = "fetch"
    /\ pc' = "loop"
    /\ UNCHANGED <<idleVars, loopIndex, analyses, topSignals, luziaCalls, luziaRequests,
                   analysed, printed, sent, exitCode, failures>>

\* the fetch rejects, or its answer lacks the universe or the contexts: the
\* catch block calls process.exit(1)
FetchFails ==
    /\ mode = "run"
    /\ pc = "fetch"
    /\ pc' = "exit"
    /\ exitCode' = 1
    /\ \E kind \in FetchFailures : failures' = Append(failures, Failure(kind, ""))
    /\ UNCHANGED <<idleVars, loopIndex, analyses, topSignals, luziaCalls, luziaRequests,
                   analysed, printed, sent>>

\* one iteration for an asset below the pre-filter: continue
SkipAsset ==
    /\ mode = "run"
    /\ pc = "loop"
    /\ loopIndex < Len(universe)
    /\ loopIndex < assetCtxsLength
    /\ Skipped(VolumeOf(universe[loopIndex + 1]))
    /\ loopIndex' = loopIndex + 1
    /\ UNCHANGED <<idleVars, pc, analyses, topSignals, luziaCalls, luziaRequests,
                   analysed, printed, sent, exitCode, failures>>

\* one iteration for an asset the assetCtxs array has no entry for:
\* assetCtxs[i].funding throws a TypeError and the catch block calls
\* process.exit(1)
ContextMissing ==
    /\ mode = "run"
    /\ pc = "loop"
    /\ loopIndex < Len(universe)
    /\ loopIndex >= assetCtxsLength
    /\ pc' = "exit"
    /\ exitCode' = 1
    /\ failures' = Append(failures, Failure("incomplete", universe[loopIndex + 1].name))
    /\ UNCHANGED <<idleVars, loopIndex, analyses, topSignals, luziaCalls, luziaRequests,
                   analysed, printed, sent>>

\* one iteration up to await fetchLuziaTicker(...); the request is made
\* only with an API key
CallLuzia ==
    /\ mode = "run"
    /\ pc = "loop"
    /\ loopIndex < Len(universe)
    /\ loopIndex < assetCtxsLength
    /\ ~Skipped(VolumeOf(universe[loopIndex + 1]))
    /\ luziaCalls' = Append(luziaCalls, universe[loopIndex + 1].name)
    /\ luziaRequests' = IF env.luziaKey THEN Append(luziaRequests, universe[loopIndex + 1].name)
                        ELSE luziaRequests
    /\ pc' = "luzia"
    /\ UNCHANGED <<idleVars, loopIndex, analyses, topSignals, analysed, printed, sent, exitCode, failures>>

\* fetchLuziaTicker resolves (with null without a key or on any failure);
\* analyzeAsset runs on a fresh random history and its result is pushed
AnalyzeNext ==
    /\ mode = "run"
    /\ pc = "luzia"
    /\ \E answer \in (IF env.luziaKey THEN LuziaAnswers ELSE {NoLuzia}), ind \in RunIndicators :
          LET ctx   == universe[loopIndex + 1]
              hyper == HyperDataOf(ctx)
          IN  /\ analyses' = Append(analyses,
                                    ScoreSignal(variant, ctx.name, hyper, Change24h(hyper, answer), ind))
              /\ failures' = IF env.luziaKey /\ ~answer.present
                             THEN Append(failures, Failure("luzia", ctx.name))
                             ELSE failures
    /\ analysed' = Append(analysed, universe[loopIndex + 1].name)
    /\ loopIndex' = loopIndex + 1
    /\ pc' = "loop"
    /\ UNCHANGED <<idleVars, topSignals, luziaCalls, luziaRequests, printed, sent, exitCode>>

\* the loop ends: analyses.sort(...), topSignals = analyses.slice(0, topN)
Rank ==
    /\ mode = "run"
    /\ pc = "loop"
    /\ loopIndex >= Len(universe)
    /\ analyses' = SortByScore(analyses)
    /\ topSignals' = Slice0(SortByScore(analyses), topN)
    /\ pc' = "ranked"
    /\ UNCHANGED <<idleVars, loopIndex, luziaCalls, luziaRequests, analysed, printed, sent, exitCode, failures>>

\* v1.0: topSignals.forEach prints every signal with its risk plan
PrintSignals ==
    /\ mode = "run"
    /\ pc = "ranked"
    /\ variant = "v1"
    /\ printed' = [k \in 1..Len(topSignals) |-> topSignals[k].asset]
    /\ pc' = "done"
    /\ UNCHANGED <<idleVars, loopIndex, analyses, topSignals, luziaCalls, luziaRequests,
                   analysed, sent, exitCode, failures>>

\* a faulty notification loop: every top signal is sent
ToNotifyAll == topSignals

\* CRON_MODE && TELEGRAM_BOT_TOKEN && TELEGRAM_CHAT_ID
Notifying == env.cronMode /\ env.botToken /\ env.chatId

\* topSignals.slice(0, 3)
ToNotify == Slice0(topSignals, Num(3))

\* Telegram variant: notifications are skipped, or there is none left to send
FinishRun ==
    /\ mode = "run"
    /\ pc = "ranked"
    /\ variant = "telegram"
    /\ ~Notifying \/ Len(sent) >= Len(ToNotify)
    /\ pc' = "done"
    /\ UNCHANGED <<idleVars, loopIndex, analyses, topSignals, luziaCalls, luziaRequests,
                   analysed, printed, sent, exitCode, failures>>

\* Telegram variant: await sendTelegramSignal(signal, risk) for the next
\* signal
SendSignal ==
    /\ mode = "run"
    /\ pc = "ranked"
    /\ variant = "telegram"
    /\ Notifying
    /\ Len(sent) < Len(ToNotify)
    /\ pc' = "sending"
    /\ UNCHANGED <<idleVars, loopIndex, analyses, topSignals, luziaCalls, luziaRequests,
                   analysed, printed, sent, exitCode, failures>>

\* a faulty delivery: a network error rejects, which the catch block of
\* generateSignals turns into process.exit(1)
DeliveryRejects ==
    /\ mode = "run"
    /\ pc = "sending"
    /\ \E ok \in BOOLEAN :
          /\ sent' = Append(sent, [asset |-> ToNotify[Len(sent) + 1].asset, ok |-> ok])
          /\ failures' = IF ok THEN failures
                         ELSE Append(failures, Failure("telegram", ToNotify[Len(sent) + 1].asset))
          /\ pc' = IF ok THEN "ranked" ELSE "exit"
          /\ exitCode' = IF ok THEN exitCode ELSE 1
    /\ UNCHANGED <<idleVars, loopIndex, analyses, topSignals, luziaCalls, luziaRequests,
                   analysed, printed>>

\* the delivery resolves true (sent) or false (refused, unparsable answer,
\* network error)
DeliveryResolves ==
    /\ mode = "run"
    /\ pc = "sending"
    /\ \E ok \in BOOLEAN :
          /\ sent' = Append(sent, [asset |-> ToNotify[Len(sent) + 1].asset, ok |-> ok])
          /\ failures' = IF ok THEN failures
                         ELSE Append(failures, Failure("telegram", ToNotify[Len(sent) + 1].asset))
    /\ pc' = "ranked"
    /\ UNCHANGED <<idleVars, loopIndex, analyses, topSignals, luziaCalls, luziaRequests,
                   analysed, printed, exitCode>>

NextRun ==
    \/ FetchData
    \/ FetchFails
    \/ SkipAsset
    \/ ContextMissing
    \/ CallLuzia
    \/ AnalyzeNext
    \/ Rank
    \/ PrintSignals
    \/ FinishRun
    \/ SendSignal
    \/ DeliveryResolves

SpecRun == InitRun /\ [][NextRun]_vars

\* the assets of a run that has more signals than are notified
MaxSignals == 4

\* universes of assets that all pass the pre-filter
TelegramUniverses == {[k \in 1..n |-> Ctx(k, 30)] : n \in 0..MaxSignals}

\* a run of the Telegram variant, without a Luzia key, on a complete
\* answer of the Hyperliquid API
InitTelegram ==
    /\ mode = "run"
    /\ pc = "fetch"
    /\ variant = "telegram"
    /\ env \in {e \in Envs : ~e.luziaKey}
    /\ topN \in {Num(2), Num(10)}
    /\ universe \in TelegramUniverses
    /\ assetCtxsLength = Len(universe)
    /\ loopIndex = 0
    /\ analyses = <<>>
    /\ topSignals = <<>>
    /\ luziaCalls = <<>>
    /\ luziaRequests = <<>>
    /\ analysed = <<>>
    /\ printed = <<>>
    /\ sent = <<>>
    /\ exitCode = -1
    /\ failures = <<>>
    /\ RiskIdle
    /\ ScoreIdle
    /\ IndIdle
    /\ HistIdle
    /\ ServerIdle

NextTelegram ==
    \/ FetchData
    \/ CallLuzia
    \/ AnalyzeNext
    \/ Rank
    \/ FinishRun
    \/ SendSignal
    \/ DeliveryResolves

SpecTelegram == InitTelegram /\ [][NextTelegram]_vars

\* generateSimulatedHistory(currentPrice, change24h) is entered: history is
\* empty and price is the back-solved start
InitHist ==
    /\ mode = "hist"
    /\ pc = "loop"
    /\ variant \in Variants
    /\ histArgs \in HistoryArgs
    /\ random \in RandomPatterns
    /\ histLoop = Loop(0, StartPrice(histArgs))
    /\ history = <<>>
    /\ RiskIdle
    /\ ScoreIdle
    /\ IndIdle
    /\ RunIdle
    /\ ServerIdle

\* a faulty iteration: the price is pushed twice, then advanced
HistoryStepPushTwice ==
    /\ mode = "hist"
    /\ pc = "loop"
    /\ histLoop.i < HistorySteps
    /\ history' = history \o <<histLoop.value, histLoop.value>>
    /\ histLoop' = Loop(histLoop.i + 1, Advance(histArgs, histLoop.value, RandomAt(histLoop.i)))
    /\ UNCHANGED <<mode, variant, pc, histArgs, random, riskVars, scoreVars, indVars, runVars, serverVars>>

\* one iteration: history.push(price); price = Math.max(...); history.push(price)
HistoryStep ==
    /\ mode = "hist"
    /\ pc = "loop"
    /\ histLoop.i < HistorySteps
    /\ LET advanced == Advance(histArgs, histLoop.value, RandomAt(histLoop.i))
       IN  /\ history' = history \o <<histLoop.value, advanced>>
           /\ histLoop' = Loop(histLoop.i + 1, advanced)
    /\ UNCHANGED <<mode, variant, pc, histArgs, random, riskVars, scoreVars, indVars, runVars, serverVars>>

\* the loop ends: return history
HistoryReturn ==
    /\ mode = "hist"
    /\ pc = "loop"
    /\ histLoop.i >= HistorySteps
    /\ pc' = "returned"
    /\ UNCHANGED <<mode, variant, histVars, riskVars, scoreVars, indVars, runVars, serverVars>>

NextHist == HistoryStep \/ HistoryReturn

SpecHist == InitHist /\ [][NextHist]_vars

\* the module is loaded: latestSignals = null, lastUpdate = null
InitServer ==
    /\ mode = "server"
    /\ pc = "starting"
    /\ variant \in Variants
    /\ latestSignals = Null
    /\ lastUpdate = Null
    /\ clock = 0
    /\ pending = <<>>
    /\ refreshLog = <<>>
    /\ responses = <<>>
    /\ RiskIdle
    /\ ScoreIdle
    /\ IndIdle
    /\ RunIdle
    /\ HistIdle

otherVars == <<mode, variant, riskVars, scoreVars, indVars, runVars, histVars>>

\* the requests received so far: those answered and those waiting
Received == Len(responses) + Len(pending)

\* a faulty refresh: a failing run clears latestSignals
RefreshFailureClears ==
    /\ clock' = clock + 1
    /\ \/ \E output \in Outputs :
             /\ latestSignals' = Value(ParseSignals(output))
             /\ lastUpdate' = Value(clock')
             /\ refreshLog' = Append(refreshLog,
                                     Refreshed(TRUE, Value(ParseSignals(output)), clock'))
       \/ \E failure \in ExecFailures :
             /\ latestSignals' = Null
             /\ UNCHANGED lastUpdate
             /\ refreshLog' = Append(refreshLog, Refreshed(FALSE, Null, clock'))

\* refreshSignals(): execSync blocks the event loop until the service has
\* ended; its output is parsed and both variables are assigned, or execSync
\* throws and the catch block returns null
RefreshSignals ==
    /\ clock' = clock + 1
    /\ \/ \E output \in Outputs :
             /\ latestSignals' = Value(ParseSignals(output))
             /\ lastUpdate' = Value(clock')
             /\ refreshLog' = Append(refreshLog,
                                     Refreshed(TRUE, Value(ParseSignals(output)), clock'))
       \/ \E failure \in ExecFailures :
             /\ UNCHANGED <<latestSignals, lastUpdate>>
             /\ refreshLog' = Append(refreshLog, Refreshed(FALSE, Null, clock'))

\* a request arrives while the server starts or serves; it waits until the
\* event loop is free
Arrive ==
    /\ mode = "server"
    /\ Received < MaxRequests
    /\ \E route \in Requests : pending' = Append(pending, route)
    /\ UNCHANGED <<otherVars, pc, latestSignals, lastUpdate, clock, refreshLog, responses>>

\* the app.listen callback: await refreshSignals()
Startup ==
    /\ mode = "server"
    /\ pc = "starting"
    /\ pc' = "serving"
    /\ RefreshSignals
    /\ UNCHANGED <<otherVars, pending, responses>>

\* GET /api/refresh: await refreshSignals(); res.json({ success: true, lastUpdate })
ApiRefresh ==
    /\ mode = "server"
    /\ pc = "serving"
    /\ pending # <<>>
    /\ Head(pending) = "refresh"
    /\ pending' = Tail(pending)
    /\ RefreshSignals
    /\ responses' = Append(responses, Response("refresh", Null, lastUpdate', Len(refreshLog')))
    /\ UNCHANGED <<otherVars, pc>>

\* GET /api/signals: res.json({ signals: latestSignals, lastUpdate })
ApiSignals ==
    /\ mode = "server"
    /\ pc = "serving"
    /\ pending # <<>>
    /\ Head(pending) = "signals"
    /\ pending' = Tail(pending)
    /\ responses' = Append(responses,
                           Response("signals", latestSignals, lastUpdate, Len(refreshLog)))
    /\ UNCHANGED <<otherVars, pc, latestSignals, lastUpdate, clock, refreshLog>>

NextServer == Arrive \/ Startup \/ ApiRefresh \/ ApiSignals

SpecServer == InitServer /\ [][NextServer]_vars

\* ------------------------------------------------------------------------
\* Properties of the risk sizer (SpecRisk)
\* ------------------------------------------------------------------------

Sized == mode = "risk" /\ pc = "sized"

TakeProfitPrices(p) == {p.takeProfit1.price, p.takeProfit2.price, p.takeProfit3.price}

\* the prices of a plan that depend on the direction of the trade
DirectionalPrices(p) ==
    <<p.stopLossPrice, p.takeProfit1.price, p.takeProfit2.price, p.takeProfit3.price>>

\* C1: in both variants, with price > 0 and stop distance > 0, a BULLISH
\* signal has its stop below the price and its three targets above it, and a
\* BEARISH signal has its stop above the price and its three targets below it.
C1_StopAndTargetsFollowBias ==
    Sized =>
        /\ signal.bias = "BULLISH" =>
              /\ RLt(plan.stopLossPrice, signal.price)
              /\ \A tp \in TakeProfitPrices(plan) : RLt(signal.price, tp)
        /\ signal.bias = "BEARISH" =>
              /\ RLt(signal.price, plan.stopLossPrice)
              /\ \A tp \in TakeProfitPrices(plan) : RLt(tp, signal.price)

\* C2 as stated: a NEUTRAL signal gets the stop and the targets of the same
\* signal with bias BULLISH, the stop below the entry and the targets above.
C2_NeutralSizedAsBullish ==
    (Sized /\ signal.bias = "NEUTRAL") =>
        /\ DirectionalPrices(plan) =
              DirectionalPrices(PositionSizeOf(variant, [signal EXCEPT !.bias = "BULLISH"],
                                               accountBalance, riskProfile))
        /\ RLt(plan.stopLossPrice, signal.price)

\* C2 amended: a NEUTRAL signal gets the stop and the targets of the same
\* signal with bias BEARISH: the stop above the entry, and the targets below
\* the entry in the risk-profile variant, above it in the simplified one.
C2_NeutralSizedAsBearish ==
    (Sized /\ signal.bias = "NEUTRAL") =>
        /\ DirectionalPrices(plan) =
              DirectionalPrices(PositionSizeOf(variant, [signal EXCEPT !.bias = "BEARISH"],
                                               accountBalance, riskProfile))
        /\ RLt(signal.price, plan.stopLossPrice)
        /\ \A tp \in TakeProfitPrices(plan) :
              IF variant = "v1" THEN RLt(tp, signal.price) ELSE RLt(signal.price, tp)

C2_Witness ==
    /\ Sized
    /\ signal.bias = "NEUTRAL"
    /\ variant = "v1"
    /\ RLt(signal.price, plan.stopLossPrice)

\* C3: leverageToUse is at most the configured maximum leverage and equals
\* min(positionSize / accountBalance, maximum), for every signal, balance > 0
\* and profile; the call always returns a plan.
C3_LeverageCapped ==
    Sized =>
        /\ plan # NoPlan
        /\ RLe(plan.leverageToUse, MaxLeverageOf(variant, riskProfile))
        /\ plan.leverageToUse =
              RMin(RDiv(plan.positionSize, accountBalance), MaxLeverageOf(variant, riskProfile))

\* the cap is active: the leverage needed exceeds the maximum
C3_Witness ==
    /\ Sized
    /\ RLt(MaxLeverageOf(variant, riskProfile), RDiv(plan.positionSize, accountBalance))
    /\ plan.leverageToUse = MaxLeverageOf(variant, riskProfile)

\* ------------------------------------------------------------------------
\* Properties of the scoring rules (SpecScore)
\* ------------------------------------------------------------------------

Scored == mode = "score" /\ pc = "scored"

\* one row of the rule table: whether it matches, its score delta, its label
Row(group, match, delta, labels) ==
    [group |-> group, match |-> match, delta |-> delta, labels |-> labels]

\* the rule table of the specification (section 4.3), row by row, read on
\* the inputs of the call at hand
RuleTable ==
    LET rsi      == indicators.rsi
        macd     == indicators.macd
        above    == AboveEMA(hyperData.markPx, indicators)
        change   == analysis.change24h
        funding  == hyperData.funding
        volume   == hyperData.volume
    IN  <<Row("rsi", rsi < Fx(30, 1), 25, <<"RSI Oversold">>),
          Row("rsi", rsi > Fx(70, 1), -15, <<"RSI Overbought">>),
          Row("rsi", Fx(55, 1) < rsi /\ rsi <= Fx(70, 1), 15, <<"RSI Bullish">>),
          Row("rsi", Fx(30, 1) <= rsi /\ rsi < Fx(45, 1), -10, <<"RSI Weak">>),
          Row("rsi45", Fx(45, 1) <= rsi /\ rsi <= Fx(55, 1), 5, <<>>),
          Row("macd", macd.bullish /\ HistogramPositive(macd), 20, <<"MACD Bullish">>),
          Row("macd", macd.bullish /\ ~HistogramPositive(macd), 10, <<"MACD Above Signal">>),
          Row("ema", above = 3, 20, <<"Strong Uptrend">>),
          Row("ema", above = 2, 10, <<"Moderate Uptrend">>),
          Row("ema", above = 0, -20, <<>>),
          Row("momentum", change > Fx(5, 1), 10, <<"Strong Momentum">>),
          Row("momentum", change < Fx(-5, 1), -10, <<"Weak Momentum">>),
          Row("funding", funding < Fx(-5, 100), 10, <<"Negative Funding">>),
          Row("funding", funding > Fx(5, 100), -10, <<"Positive Funding">>),
          Row("volume", volume > 50000000, 15, <<>>),
          Row("volume", volume > 20000000 /\ volume <= 50000000, 10, <<>>),
          Row("volume", volume <= 20000000, 5, <<>>)>>

\* the sum of the deltas of the matching rows of the groups in `groups`
RECURSIVE TableScore(_, _)
TableScore(rows, groups) ==
    IF rows = <<>> THEN 0
    ELSE (IF rows[1].match /\ rows[1].group \in groups THEN rows[1].delta ELSE 0)
         + TableScore(Tail(rows), groups)

\* the labels of the matching rows of the groups in `groups`, in table order
RECURSIVE TableLabels(_, _)
TableLabels(rows, groups) ==
    IF rows = <<>> THEN <<>>
    ELSE (IF rows[1].match /\ rows[1].group \in groups THEN rows[1].labels ELSE <<>>)
         \o TableLabels(Tail(rows), groups)

AllGroups == {"rsi", "rsi45", "macd", "ema", "momentum", "funding", "volume"}

\* the end-to-end example of the specification
IsExample ==
    /\ indicators.rsi = Fx(25, 1)
    /\ indicators.macd.bullish /\ indicators.macd.hasHistogram
    /\ indicators.macd.histogram = Fx(1, 2)
    /\ AboveEMA(hyperData.markPx, indicators) = 3
    /\ analysis.change24h = Fx(7, 1)
    /\ hyperData.funding = Fx(-8, 100)
    /\ hyperData.volume = 60000000

ExampleLabels ==
    <<"RSI Oversold", "MACD Bullish", "Strong Uptrend", "Strong Momentum", "Negative Funding">>

\* the table, as a statement about the call at hand
FollowsTable ==
    /\ analysis.score = TableScore(RuleTable, AllGroups)
    /\ analysis.signals = TableLabels(RuleTable, AllGroups)
    /\ IsExample =>
          /\ analysis.score = 100
          /\ analysis.bias = "BULLISH"
          /\ analysis.signals = ExampleLabels

\* C4 as stated: in both variants the score is the sum of the deltas of the
\* matching rules of the table and the labels are those of the matching rules,
\* in table order; the example scores 100, BULLISH, with its five labels.
C4_ScoreIsTableSum == Scored => FollowsTable

\* the two Bollinger rules of the v1.0 variant
BbDelta ==
    IF BbBelow(indicators.bb) THEN 15 ELSE IF BbAbove(indicators.bb) THEN -10 ELSE 0

BbLabels ==
    IF BbBelow(indicators.bb) THEN <<"BB at Lower Band">>
    ELSE IF BbAbove(indicators.bb) THEN <<"BB at Upper Band">> ELSE <<>>

FundingLabelsV1 ==
    IF hyperData.funding < Fx(-5, 100) THEN <<"Negative Funding (Shorts)">>
    ELSE IF hyperData.funding > Fx(5, 100) THEN <<"Positive Funding (Longs)">> ELSE <<>>

\* C4 amended: the Telegram variant follows the table, example included; in
\* the v1.0 variant the 45-55 RSI row adds nothing, the two Bollinger rules
\* (position < -1: +15 "BB at Lower Band"; position > 1: -10 "BB at Upper
\* Band") sit between the EMA and the momentum rules, and the funding labels
\* are "Negative Funding (Shorts)" and "Positive Funding (Longs)".
C4_ScoreIsTableSumPerVariant ==
    Scored =>
        IF variant = "telegram" THEN FollowsTable
        ELSE /\ analysis.score = TableScore(RuleTable, AllGroups \ {"rsi45"}) + BbDelta
             /\ analysis.signals =
                    TableLabels(RuleTable, {"rsi", "macd", "ema"}) \o BbLabels
                    \o TableLabels(RuleTable, {"momentum"}) \o FundingLabelsV1
             /\ IsExample =>
                   /\ analysis.score = 100 + BbDelta
                   /\ analysis.bias = "BULLISH"
                   /\ analysis.signals =
                         <<"RSI Oversold", "MACD Bullish", "Strong Uptrend">> \o BbLabels
                         \o <<"Strong Momentum", "Negative Funding (Shorts)">>

\* the example, scored by the Telegram variant
C4_Witness ==
    /\ Scored
    /\ variant = "telegram"
    /\ IsExample
    /\ analysis.score = 100
    /\ analysis.signals = ExampleLabels

\* what the RSI group contributes, as the claim lists it; `mid` is the
\* delta for 45 <= RSI <= 55
RsiGroupAsClaimed(rsi, mid) ==
    IF rsi < Fx(30, 1) THEN Effect(25, <<"RSI Oversold">>, "BULLISH")
    ELSE IF rsi > Fx(70, 1) THEN Effect(-15, <<"RSI Overbought">>, "BEARISH")
    ELSE IF Fx(55, 1) < rsi /\ rsi <= Fx(70, 1) THEN Effect(15, <<"RSI Bullish">>, "BULLISH")
    ELSE IF Fx(30, 1) <= rsi /\ rsi < Fx(45, 1) THEN Effect(-10, <<"RSI Weak">>, "BEARISH")
    ELSE Effect(mid, <<>>, NoBias)

\* the part of the returned score that the RSI group gave: the score less
\* the deltas of the other rules
RsiShare ==
    analysis.score
    - SumDeltas(Tail(RuleEffects(variant, hyperData, analysis.change24h, indicators)))
    - VolumeScore(hyperData.volume)

\* C5 as stated: in both variants exactly one RSI rule applies; RSI < 30
\* gives +25, RSI > 70 gives -15, 55 < RSI <= 70 gives +15, 30 <= RSI < 45
\* gives -10, and 45 <= RSI <= 55 gives +5, no label, bias unchanged.
C5_RsiGroup ==
    Scored =>
        /\ RsiRule(variant, indicators.rsi) = RsiGroupAsClaimed(indicators.rsi, 5)
        /\ RsiShare = RsiGroupAsClaimed(indicators.rsi, 5).delta

\* C5 amended: as stated for the Telegram variant; in the v1.0 variant no
\* rule applies for 45 <= RSI <= 55: no delta, no label, bias unchanged.
C5_RsiGroupPerVariant ==
    Scored =>
        LET mid == IF variant = "telegram" THEN 5 ELSE 0
        IN  /\ RsiRule(variant, indicators.rsi) = RsiGroupAsClaimed(indicators.rsi, mid)
            /\ RsiShare = RsiGroupAsClaimed(indicators.rsi, mid).delta

\* RSI on a bound of the chain (30 is not oversold)
C5_Witness ==
    /\ Scored
    /\ indicators.rsi = Fx(30, 1)
    /\ Head(analysis.signals) = "RSI Weak"

\* the bias the RSI group leaves
RsiBiasAsClaimed(rsi) ==
    IF rsi < Fx(30, 1) THEN "BULLISH"
    ELSE IF rsi > Fx(70, 1) THEN "BEARISH"
    ELSE IF rsi > Fx(55, 1) THEN "BULLISH"
    ELSE IF rsi < Fx(45, 1) THEN "BEARISH"
    ELSE "NEUTRAL"

\* C6: the bias is BULLISH with the price above 3 or 2 EMAs and BEARISH with
\* it above none, whatever the RSI rule set; above exactly 1 EMA it is the
\* bias the RSI rule set; it is NEUTRAL only when 45 <= RSI <= 55 and the
\* price is above exactly 1 EMA.  No other rule changes it.
C6_BiasIsLastOverride ==
    Scored =>
        LET above == AboveEMA(hyperData.markPx, indicators)
            rsi   == indicators.rsi
        IN  /\ above \in {2, 3} => analysis.bias = "BULLISH"
            /\ above = 0 => analysis.bias = "BEARISH"
            /\ above = 1 => analysis.bias = RsiBiasAsClaimed(rsi)
            /\ analysis.bias = "NEUTRAL" =>
                  (Fx(45, 1) <= rsi /\ rsi <= Fx(55, 1) /\ above = 1)

\* the EMA rule overrides the bias the RSI rule set
C6_Witness ==
    /\ Scored
    /\ indicators.rsi < Fx(30, 1)
    /\ AboveEMA(hyperData.markPx, indicators) = 0
    /\ analysis.bias = "BEARISH"

\* ------------------------------------------------------------------------
\* Properties of the indicator functions (SpecInd)
\* ------------------------------------------------------------------------

Returned(fn) == mode = "ind" /\ pc = "returned" /\ call.fn = fn

Last(ps) == ps[Len(ps)]

\* C9: on a non-empty series too short for the indicator each function
\* returns its sentinel: RSI 50 below period + 1 prices, EMA the last element
\* below period, MACD {macd: 0, signal: 0, bullish: true} below 35, Bollinger
\* all zeros below period, ATR 0 below period + 1.
C9_Sentinels ==
    /\ (Returned("rsi") /\ Len(prices) < call.period + 1) => ret.num = Fx(50, 1)
    /\ (Returned("ema") /\ Len(prices) < call.period) => ret.num = Last(prices)
    /\ (Returned("macd") /\ Len(prices) < 35) =>
          /\ ret.macd.macd = 0 /\ ret.macd.signal = 0 /\ ret.macd.bullish
          /\ ~ret.macd.hasHistogram
    /\ (Returned("bb") /\ Len(prices) < call.period) =>
          /\ ret.bb.upper = 0 /\ ret.bb.middle = 0 /\ ret.bb.lower = 0
          /\ ret.bb.position = 0 /\ ret.bb.positionIs = "number"
    /\ (Returned("atr") /\ Len(prices) < call.period + 1) => ret.num = 0

\* the longest series that is still too short for the MACD
C9_Witness ==
    /\ Returned("macd")
    /\ Len(prices) = 34
    /\ Last(prices) # prices[1]
    /\ ret.macd = MacdDefault

StrictlyIncreasing(ps) == \A i \in 1..(Len(ps) - 1) : ps[i] < ps[i + 1]

\* C10: for a strictly increasing series of more than 15 prices calculateRSI
\* with the default period 14 returns exactly 100: the average loss is 0
\* after the seed and after every smoothing step.
C10_RisingRsiIs100 ==
    (Returned("rsi") /\ call.period = 14 /\ Len(prices) > 15 /\ StrictlyIncreasing(prices)) =>
        /\ ret.num = Fx(100, 1)
        /\ \A n \in 15..Len(prices) : RsiAverage(Losses(SubSeq(prices, 1, n)), 14) = 0

\* a rising series long enough for the smoothing loop to have run
C10_Witness ==
    /\ Returned("rsi")
    /\ call.period = 14
    /\ Len(prices) > 16
    /\ StrictlyIncreasing(prices)
    /\ ret.num = Fx(100, 1)

\* ------------------------------------------------------------------------
\* Properties of generateSignals (SpecRun)
\* ------------------------------------------------------------------------

\* topSignals has been computed
Ranked == mode = "run" /\ pc \in {"ranked", "sending", "done"}

Min2(a, b) == IF a <= b THEN a ELSE b

NonIncreasing(xs) == \A k \in 1..(Len(xs) - 1) : xs[k].score >= xs[k + 1].score

AssetsOf(xs) == {xs[k].asset : k \in 1..Len(xs)}

\* the analysed assets that topSignals leaves out
LeftOut == {k \in 1..Len(analyses) : analyses[k].asset \notin AssetsOf(topSignals)}

\* no asset left out scores higher than an asset kept
KeepsTheBest ==
    \A k \in LeftOut : \A j \in 1..Len(topSignals) : analyses[k].score <= topSignals[j].score

\* C7 as stated: topSignals is in non-increasing score order, holds
\* min(topN, number of analysed assets) entries, and no analysed asset left
\* out scores higher than one in it.
C7_TopNRanked ==
    Ranked =>
        /\ NonIncreasing(topSignals)
        /\ ~topN.nan
        /\ Len(topSignals) = Min2(topN.value, Len(analysed))
        /\ KeepsTheBest

\* C7 amended: the order and the choice are as stated; the list holds
\* min(topN, number of analysed assets) entries when topN is a non-negative
\* integer, max(0, number of analysed assets + topN) entries when topN is
\* negative, and none when --top does not parse (NaN).
C7_TopNRankedForParsedTopN ==
    Ranked =>
        /\ NonIncreasing(topSignals)
        /\ Len(topSignals) =
              IF topN.nan THEN 0
              ELSE IF topN.value >= 0 THEN Min2(topN.value, Len(analysed))
              ELSE IF Len(analysed) + topN.value > 0 THEN Len(analysed) + topN.value
              ELSE 0
        /\ KeepsTheBest

\* two assets analysed, the better one second, and only one kept
C7_Witness ==
    /\ Ranked
    /\ topN = Num(1)
    /\ Len(analysed) = 2
    /\ Len(topSignals) = 1
    /\ topSignals[1].asset = analysed[2]
    /\ analyses[2].score < topSignals[1].score

\* the context of an asset
CtxOf(name) == CHOOSE ctx \in {universe[k] : k \in 1..Len(universe)} : ctx.name = name

Below5M(name) == CtxOf(name).dayNtlVlm * 1000000 < 5000000

Elements(xs) == {xs[k] : k \in 1..Len(xs)}

\* the assets, in universe order, of the first n contexts that are not below
\* the threshold
RECURSIVE Passing(_)
Passing(n) ==
    IF n = 0 THEN <<>>
    ELSE Passing(n - 1) \o (IF universe[n].dayNtlVlm * 1000000 < 5000000 THEN <<>>
                            ELSE <<universe[n].name>>)

\* C8: an asset with volume below 5,000,000 is never passed to analyzeAsset,
\* never triggers a Luzia ticker fetch and never appears in the output;
\* every asset with volume >= 5,000,000 is analysed exactly once, in
\* universe order.
C8_PreFilter ==
    mode = "run" =>
        /\ \A name \in Elements(analysed) \cup Elements(luziaCalls) \cup Elements(luziaRequests)
                       \cup AssetsOf(analyses) \cup AssetsOf(topSignals) \cup Elements(printed)
                       \cup AssetsOf(sent) :
              ~Below5M(name)
        /\ analysed = Passing(loopIndex)
        /\ Ranked => analysed = Passing(Len(universe))

\* a run over an asset below the threshold and an asset exactly at it
C8_Witness ==
    /\ mode = "run"
    /\ pc = "done"
    /\ Len(universe) = 2
    /\ universe[1].dayNtlVlm = 4
    /\ universe[2].dayNtlVlm = 5
    /\ analysed = <<universe[2].name>>
    /\ AssetsOf(topSignals) = {universe[2].name}

\* ------------------------------------------------------------------------
\* The range of the score (SpecScore)
\* ------------------------------------------------------------------------

\* the scores analyzeAsset computes in a variant, over every indicator set
\* and market snapshot of SpecScore
ScoresOf ==
    [v \in Variants |->
        {ScoreSignal(v, "BTC", h, Change24h(h, l), ind).score :
            h \in ScoreHyperData, l \in ScoreLuzias, ind \in ScoreIndicators}]

\* C13 (as claimed): the score has no fixed ceiling or floor: in the
\* variant that scored there are indicator sets and market snapshots with a
\* negative score and there are some with a score above 100.
C13_NegativeAndAbove100 ==
    Scored =>
        /\ \E s \in ScoresOf[variant] : s < 0
        /\ \E s \in ScoresOf[variant] : s > 100

\* C13 (amended): in both variants there are indicator sets and market
\* snapshots with a negative score; a score above 100 exists in the v1.0
\* variant only.  The score of the Telegram variant lies in -50 .. 100 and
\* the score of the v1.0 variant in -60 .. 115, and both ends are taken.
C13_ScoreRangePerVariant ==
    Scored =>
        /\ analysis.score \in ScoresOf[variant]
        /\ \E s \in ScoresOf[variant] : s < 0
        /\ (\E s \in ScoresOf[variant] : s > 100) <=> variant = "v1"
        /\ variant = "telegram" =>
              /\ analysis.score \in -50..100
              /\ {-50, 100} \subseteq ScoresOf[variant]
        /\ variant = "v1" =>
              /\ analysis.score \in -60..115
              /\ {-60, 115} \subseteq ScoresOf[variant]

\* the v1.0 variant scored above 100
C13_Witness == Scored /\ variant = "v1" /\ analysis.score > 100

\* ------------------------------------------------------------------------
\* The change24h override (SpecScore)
\* ------------------------------------------------------------------------

\* the external ticker supplied a change24h
OverrideSupplied == luziaData.present /\ luziaData.hasChange24h

\* the returned signal is the one the rules give for the 24h change c
ScoredWithChange(c) ==
    /\ analysis.change24h = c
    /\ analysis = ScoreSignal(variant, "BTC", hyperData, c, indicators)
    /\ ("Strong Momentum" \in Elements(analysis.signals)) <=> (c > Fx(5, 1))
    /\ ("Weak Momentum" \in Elements(analysis.signals)) <=> (c < Fx(-5, 1))

\* C14: whenever the external ticker supplies a change24h, 0 included,
\* analyzeAsset uses that value for the momentum rules and in the returned
\* signal; it uses the Hyperliquid momentum only when none is supplied.
C14_OverrideUsedWheneverSupplied ==
    Scored =>
        /\ OverrideSupplied => ScoredWithChange(luziaData.change24h)
        /\ ~OverrideSupplied => ScoredWithChange(hyperData.momentum)

\* ------------------------------------------------------------------------
\* The MACD record and its rules (SpecInd)
\* ------------------------------------------------------------------------

\* C15: for every price sequence of at least 35 points calculateMACD
\* returns bullish = true exactly when histogram > 0, which is exactly when
\* the MACD line is > 0; the MACD rules then never give the label
\* 'MACD Above Signal' nor its delta of 10: they give 'MACD Bullish' and 20
\* when bullish, and nothing otherwise.
C15_BullishIffHistogramPositive ==
    (Returned("macd") /\ Len(prices) >= 35) =>
        /\ ret.macd.hasHistogram
        /\ ret.macd.bullish <=> ret.macd.histogram > 0
        /\ ret.macd.bullish <=> ret.macd.macd > 0
        /\ ret.macd.bullish <=> calculateEMA(prices, 12) > calculateEMA(prices, 26)
        /\ "MACD Above Signal" \notin Elements(MacdRule(ret.macd).labels)
        /\ MacdRule(ret.macd).delta # 10
        /\ MacdRule(ret.macd) = IF ret.macd.bullish
                                THEN Effect(20, <<"MACD Bullish">>, NoBias) ELSE NoEffect

\* calculateMACD returned for 35 points or more with a MACD line of zero:
\* neither bullish nor a positive histogram
C15_Witness ==
    /\ Returned("macd")
    /\ Len(prices) >= 35
    /\ ret.macd.hasHistogram
    /\ ret.macd.macd = 0
    /\ ~ret.macd.bullish

\* ------------------------------------------------------------------------
\* Failures of a run (SpecRun)
\* ------------------------------------------------------------------------

\* the run was aborted by process.exit
Aborted == mode = "run" /\ pc = "exit"

\* the failures of one kind, as positions of `failures`
FailuresOf(kinds) == {k \in 1..Len(failures) : failures[k].kind \in kinds}

\* the Hyperliquid data could not be used: the fetch failed, or the
\* response misses a context
HyperliquidFailed == FailuresOf(FetchFailures) # {}

\* C11: the only failure that aborts a run is a failure of the Hyperliquid
\* market data (rejected request, unparsable or incomplete response): the
\* run is aborted exactly when that failure happened, the exit status is
\* then 1, nothing was printed and no Telegram message was sent; a failed
\* Luzia fetch leaves its asset analysed and a failed Telegram delivery
\* leaves the following signals delivered: a run that is done attempted
\* every signal it had to notify.
C11_OnlyFetchFailureAborts ==
    mode = "run" =>
        /\ Aborted <=> HyperliquidFailed
        /\ Aborted <=> exitCode # -1
        /\ Aborted => /\ exitCode = 1
                      /\ printed = <<>>
                      /\ sent = <<>>
                      /\ failures[Len(failures)].kind \in FetchFailures
        /\ \A k \in FailuresOf({"luzia"}) : failures[k].asset \in Elements(analysed)
        /\ \A k \in FailuresOf({"telegram"}) :
              /\ ~Aborted
              /\ \E j \in 1..Len(sent) : sent[j].asset = failures[k].asset /\ ~sent[j].ok
        /\ (pc = "done" /\ variant = "telegram" /\ Notifying) =>
              [j \in 1..Len(sent) |-> sent[j].asset] =
              [j \in 1..Len(ToNotify) |-> ToNotify[j].asset]

\* a run that is done although a Luzia fetch failed and the first Telegram
\* delivery failed: the second signal was delivered all the same
C11_Witness ==
    /\ mode = "run"
    /\ pc = "done"
    /\ FailuresOf({"luzia"}) # {}
    /\ Len(sent) = 2
    /\ ~sent[1].ok
    /\ sent[2].ok

\* ------------------------------------------------------------------------
\* Properties of the synthetic history (SpecHist)
\* ------------------------------------------------------------------------

\* generateSimulatedHistory has returned, for arguments the claim is about
HistoryReturned ==
    /\ mode = "hist"
    /\ pc = "returned"
    /\ histArgs.currentPrice > 0
    /\ histArgs.change24h > Fx(-100, 1)

\* C12 (as claimed): the history has 120 prices, starts at the back-solved
\* price, and every step appended the pre-step price twice: the elements at
\* the 0-based positions 2k and 2k+1 are equal for every k in 0..59, so that
\* the last element is the price before the 60th advance.
C12_PreStepPriceTwice ==
    HistoryReturned =>
        /\ Len(history) = 120
        /\ history[1] = StartPrice(histArgs)
        /\ \A k \in 0..59 : history[2 * k + 1] = history[2 * k + 2]

\* C12 (amended): the history has 120 prices and starts at the back-solved
\* price; every step appended the pre-step price and then the advanced
\* price: the element at the 0-based position 2k+1 is the advance of the
\* element at 2k, the elements at 2k+1 and 2k+2 are equal for every k in
\* 0..58, and the last element is the price after the 60th advance.
C12_PriceBeforeAndAfterAdvance ==
    HistoryReturned =>
        /\ Len(history) = 120
        /\ history[1] = StartPrice(histArgs)
        /\ \A k \in 0..59 : history[2 * k + 2] = Advance(histArgs, history[2 * k + 1], RandomAt(k))
        /\ \A k \in 0..58 : history[2 * k + 2] = history[2 * k + 3]
        /\ history[120] = histLoop.value

\* a returned history whose price moved in the first and in the last step
C12_Witness ==
    /\ HistoryReturned
    /\ Len(history) = 120
    /\ history[1] # history[2]
    /\ history[119] # history[120]

\* ------------------------------------------------------------------------
\* Properties of the dashboard server (SpecServer)
\* ------------------------------------------------------------------------

\* the successful ones among the first n calls of refreshSignals
Successes(n) == {k \in 1..n : refreshLog[k].ok}

\* the last successful call among the first n
LastSuccess(n) == CHOOSE k \in Successes(n) : \A j \in Successes(n) : j <= k

\* what latestSignals and lastUpdate hold after the first n calls of
\* refreshSignals: the result and the time of the last successful one
SignalsAfter(n) == IF Successes(n) = {} THEN Null ELSE refreshLog[LastSuccess(n)].returned
UpdateAfter(n) == IF Successes(n) = {} THEN Null ELSE Value(refreshLog[LastSuccess(n)].time)

\* C16: latestSignals and lastUpdate are both null or both non-null; a
\* refresh that fails returns null and leaves both as they were, so that
\* both always hold the result and the time of the last successful refresh,
\* and every answer of /api/signals and /api/refresh carries the values
\* of the last refresh that had succeeded when it was given.
C16_RefreshKeepsLastSuccess ==
    mode = "server" =>
        /\ latestSignals.null <=> lastUpdate.null
        /\ latestSignals = SignalsAfter(Len(refreshLog))
        /\ lastUpdate = UpdateAfter(Len(refreshLog))
        /\ \A k \in 1..Len(refreshLog) : refreshLog[k].returned.null <=> ~refreshLog[k].ok
        /\ \A k \in 1..Len(responses) :
              /\ responses[k].lastUpdate = UpdateAfter(responses[k].after)
              /\ responses[k].route = "signals" =>
                    responses[k].signals = SignalsAfter(responses[k].after)

\* /api/signals answered with the signals of the startup refresh after a
\* later /api/refresh had failed
C16_Witness ==
    /\ mode = "server"
    /\ Len(refreshLog) = 2
    /\ refreshLog[1].ok
    /\ ~refreshLog[2].ok
    /\ Len(responses) = 2
    /\ responses[2].route = "signals"
    /\ responses[2].signals = refreshLog[1].returned
    /\ Len(responses[2].signals.value[1]) = 2

\* ------------------------------------------------------------------------
\* Telegram notifications (SpecTelegram)
\* ------------------------------------------------------------------------

\* the deliveries started so far: those resolved and the one awaited
Started == Len(sent) + (IF pc = "sending" THEN 1 ELSE 0)

\* C17: Telegram messages are sent only when CRON_MODE is true and the bot
\* token and the chat id are set; then at most 3 are sent, one per signal
\* for the first min(3, number of top signals) signals, in the order of the
\* top signals, which is descending in score; a delivery is started only
\* when every earlier one has resolved, and a failed delivery does not keep
\* the following ones from being sent: a run that is done has attempted all
\* of them.  Otherwise no message is sent.
C17_AtMostThreeInOrder ==
    (mode = "run" /\ variant = "telegram") =>
        /\ Started > 0 => env.cronMode /\ env.botToken /\ env.chatId
        /\ Started <= Min2(3, Len(topSignals))
        /\ Started - Len(sent) <= 1
        /\ \A j \in 1..Len(sent) : sent[j].asset = topSignals[j].asset
        /\ NonIncreasing(topSignals)
        /\ pc = "done" =>
              Len(sent) = IF env.cronMode /\ env.botToken /\ env.chatId
                          THEN Min2(3, Len(topSignals)) ELSE 0

\* a finished run with four top signals: three messages were sent, the
\* second delivery failed and the third was made all the same
C17_Witness ==
    /\ mode = "run"
    /\ variant = "telegram"
    /\ pc = "done"
    /\ Len(topSignals) = 4
    /\ Len(sent) = 3
    /\ ~sent[2].ok
    /\ sent[3].ok
    /\ topSignals[1].score > topSignals[4].score

====
